---- MODULE Spec2Model ----
(***************************************************************************)
(* The Sonatel API client (src/src/sonatel-api.js, src/src/index.js): the  *)
(* constructor, the OAuth token cache of _getToken and the authenticated   *)
(* request dispatcher.  Every asynchronous method is cut at its awaits:    *)
(* the code between two awaits runs without interleaving on the event      *)
(* loop, so each such piece is one action.  The wall clock (new Date(),    *)
(* Date.now()) is the variable now, in milliseconds.                       *)
(***************************************************************************)
EXTENDS Integers, Sequences, FiniteSets, TLC

\* ---- bounds of the model ----
NumReqs == 2          \* concurrent callers of request()
MaxFetch == 2         \* tokens the token endpoint issues
MaxTicks == 2         \* seconds the clock advances

\* ---- program constants ----
DefaultExpiresIn == 3600
MsPerSecond == 1000
DefaultTimeout == 10000

Reqs == 1..NumReqs

\* ---- JavaScript values ----
\* A string is the sequence of its pieces, "" is <<>>.
Undefined == [t |-> "undefined"]
Null == [t |-> "null"]
Str(s) == [t |-> "string", v |-> s]
Num(n) == [t |-> "number", v |-> n]
Bool(b) == [t |-> "boolean", v |-> b]
DateOf(ms) == [t |-> "Date", v |-> ms]
Obj(name) == [t |-> "object", v |-> <<name>>]
Err(message) == [t |-> "Error", v |-> message]

\* JavaScript truthiness, as !x, x && y and x || y test it.
Truthy(x) ==
    CASE x.t \in {"undefined", "null"} -> FALSE
      [] x.t = "string" -> x.v # <<>>
      [] x.t = "number" -> x.v # 0
      [] x.t = "boolean" -> x.v
      [] OTHER -> TRUE

\* a || b
Or(a, b) == IF Truthy(a) THEN a ELSE b

\* ${x} inside a template string
Template(x) == IF x.t = "string" THEN x.v ELSE <<x.t>>

\* response.ok
Ok(status) == status >= 200 /\ status <= 299

\* ---- inputs ----
CredValues == {Undefined, Null, Str(<<>>), Str(<<"secret">>)}
Configs ==
    [clientId : CredValues, clientSecret : CredValues,
     baseUrl : {Undefined}, timeout : {Undefined}, debug : {Undefined}]

\* options.data is a JSON value: an object, or a non-null value that is falsy
\* (the empty string)
Options ==
    [method : {Undefined, Str(<<"POST">>)},
     data : {Undefined, Str(<<>>), Obj("data")}]

\* expires_in of a token response: omitted, or a number of seconds
ExpiresInValues == {Undefined, Num(-1), Num(0), Num(1)}

\* What the token endpoint can answer: the fetch rejects (network failure,
\* timeout), a non-success status, a body that is not JSON, or a JSON body.
TokenResponses ==
    {[kind |-> "reject", status |-> 0, parses |-> FALSE, expires_in |-> Undefined],
     [kind |-> "response", status |-> 401, parses |-> TRUE, expires_in |-> Undefined],
     [kind |-> "response", status |-> 200, parses |-> FALSE, expires_in |-> Undefined]}
    \cup {[kind |-> "response", status |-> 200, parses |-> TRUE, expires_in |-> e] :
             e \in ExpiresInValues}

\* The answers that make the token acquisition fail.
FailedTokenResponses ==
    {resp \in TokenResponses :
        resp.kind = "reject" \/ ~Ok(resp.status) \/ ~resp.parses}

\* The answers of a token endpoint that succeeds with a positive lifetime.
OkTokenResponses ==
    {resp \in TokenResponses :
        /\ resp.kind = "response" /\ resp.status = 200 /\ resp.parses
        /\ (resp.expires_in = Undefined \/ resp.expires_in.v > 0)}

\* What a resource endpoint can answer.  A body that is not labelled JSON is
\* read as text, which always decodes.
ResourceResponses ==
    {[kind |-> "reject", status |-> 0, json |-> FALSE, parses |-> FALSE]}
    \cup {resp \in [kind : {"response"}, status : {200, 401},
                    json : BOOLEAN, parses : BOOLEAN] :
             ~resp.json => resp.parses}

\* `${response.status} ${response.statusText}`
StatusLine(status) ==
    CASE status = 200 -> "200 OK"
      [] status = 401 -> "401 Unauthorized"
      [] OTHER -> "0"

\* The k-th access_token the token endpoint issues: a fresh non-empty string.
ServerToken(k) == Str(<<"tok">> \o [i \in 1..k |-> "'"])

VARIABLES
    sdk,          \* what createClient returned, Undefined before
    thrown,       \* the error the last createClient threw, Undefined if none
    config,       \* the config last given to createClient
    clientId, clientSecret, baseUrl, timeout, debug,
    token, tokenExpiry,
    now,          \* the wall clock, ms
    ticks,        \* seconds the clock has advanced
    issued,       \* tokens the token endpoint has issued so far
    req           \* the request() call of each caller

clientVars == <<clientId, clientSecret, baseUrl, timeout, debug>>
cacheVars == <<token, tokenExpiry>>
vars == <<sdk, thrown, config, clientVars, cacheVars, now, ticks, issued, req>>

\* A caller's request() call: where it stands (idle: not in a call; authWait:
\* awaiting the token endpoint; resWait: awaiting the resource endpoint), its
\* locals method and data, whether its _getToken found a cached token that it
\* took for absent, the call it issued, and what its last call returned or
\* threw.
IdleReq ==
    [pc |-> "idle", method |-> Undefined, data |-> Undefined, stale |-> FALSE,
     requestOptions |-> Undefined, result |-> Undefined]

\* token-endpoint calls in flight
Fetching == {r \in Reqs : req[r].pc = "authWait"}

Init ==
    /\ sdk = Undefined
    /\ thrown = Undefined
    /\ config = Undefined
    /\ clientId = Undefined /\ clientSecret = Undefined
    /\ baseUrl = Undefined /\ timeout = Undefined /\ debug = Undefined
    /\ token = Undefined /\ tokenExpiry = Undefined
    /\ now = 0
    /\ ticks = 0
    /\ issued = 0
    /\ req = [r \in Reqs |-> IdleReq]

\* ---- constructor, createClient ----
ConfigError == Err(<<"Client ID and Client Secret are required">>)

\* (a variant that forgets the secret)
CredentialsMissingIdOnly(cfg) == ~Truthy(cfg.clientId)

CredentialsMissing(cfg) == ~Truthy(cfg.clientId) \/ ~Truthy(cfg.clientSecret)

CreateClient(cfg) ==
    /\ sdk = Undefined
    /\ config' = cfg
    /\ IF CredentialsMissing(cfg)
       THEN /\ thrown' = ConfigError
            /\ UNCHANGED <<sdk, clientVars, cacheVars>>
       ELSE /\ clientId' = cfg.clientId
            /\ clientSecret' = cfg.clientSecret
            /\ baseUrl' = Or(cfg.baseUrl, Str(<<"https://api.orange-sonatel.com">>))
            /\ timeout' = Or(cfg.timeout, Num(DefaultTimeout))
            /\ debug' = Or(cfg.debug, Bool(FALSE))
            /\ token' = Null
            /\ tokenExpiry' = Null
            /\ thrown' = Undefined
            /\ sdk' = [api |-> "SonatelAPI", sms |-> "SMSService",
                       ussd |-> "USSDService", payment |-> "PaymentService"]
    /\ UNCHANGED <<now, ticks, issued, req>>

\* ---- the clock ----
\* the clock advances by a second
Tick ==
    /\ ticks < MaxTicks
    /\ now' = now + MsPerSecond
    /\ ticks' = ticks + 1
    /\ UNCHANGED <<sdk, thrown, config, clientVars, cacheVars, issued, req>>

\* ---- _getToken ----
\* (variants of the freshness test: <= for <, and a cache that is never used)
CachedTokenValidAtExpiry(tok, exp, t) == Truthy(tok) /\ Truthy(exp) /\ t <= exp.v

CachedTokenNeverValid(tok, exp, t) == FALSE

\* the freshness test of the cached token
CachedTokenValid(tok, exp, t) == Truthy(tok) /\ Truthy(exp) /\ t < exp.v

\* (a variant that forgets the lifetime)
TokenExpiryAtReceipt(d, t) == DateOf(t)

\* new Date(Date.now() + (data.expires_in || 3600) * 1000)
TokenExpiryOf(d, t) ==
    DateOf(t + Or(d.expires_in, Num(DefaultExpiresIn)).v * MsPerSecond)

\* the error _getToken's catch block throws
GetTokenError(message) == Err(<<"Failed to get authentication token: ">> \o message)

\* the error request's catch block throws
RequestError(message) == Err(<<"API request failed: ">> \o message)

\* (a variant with the await inside request's try block)
AwaitGetTokenInTry(e) == RequestError(e.v)

\* `await this._getToken()` stands before request's try block: what
\* _getToken throws leaves request as it is.
AwaitGetToken(e) == e

\* ---- request ----
\* JSON.stringify(data)
Stringify(x) == Str(<<"JSON of ">> \o x.v)

RequestOptions(method, dat, tok) ==
    [method |-> method,
     Authorization |-> Str(<<"Bearer ">> \o Template(tok)),
     ContentType |-> Str(<<"application/json">>),
     timeout |-> timeout,
     body |-> IF method # Str(<<"GET">>) /\ Truthy(dat)
              THEN Stringify(dat) ELSE Undefined]

\* request, resumed with the token tok that _getToken returned, builds the
\* resource call and issues it.  The resumption is a microtask that reads
\* only locals and the client's configuration, so it is one step with the
\* return of _getToken.
Issued(r, method, dat, tok) ==
    [req EXCEPT ![r] =
        [IdleReq EXCEPT !.pc = "resWait",
                        !.requestOptions = RequestOptions(method, dat, tok)]]

\* A caller calls request: it reads its options and calls _getToken, which
\* returns the cached token or issues POST /oauth/token and awaits the answer.
Request(r, options) ==
    /\ sdk # Undefined
    /\ req[r].pc = "idle"
    /\ LET method == Or(options.method, Str(<<"GET">>))
           dat == Or(options.data, Null)
       IN IF CachedTokenValid(token, tokenExpiry, now)
          THEN req' = Issued(r, method, dat, token)
          ELSE /\ issued + Cardinality(Fetching) < MaxFetch
               /\ req' = [req EXCEPT ![r] =
                             [IdleReq EXCEPT !.pc = "authWait", !.method = method,
                                             !.data = dat,
                                             !.stale = Truthy(token)]]
    /\ UNCHANGED <<sdk, thrown, config, clientVars, cacheVars, now, ticks, issued>>

\* (a variant that swallows the failure and issues the resource call with
\* whatever the cache holds)
TokenFailedIssuing(r, message) ==
    /\ req' = Issued(r, req[r].method, req[r].data, token)
    /\ UNCHANGED <<cacheVars, issued>>

\* (a variant that drops the cached token when the acquisition fails)
TokenFailedClearing(r, message) ==
    /\ req' = [req EXCEPT ![r] =
                  [IdleReq EXCEPT !.result = AwaitGetToken(GetTokenError(message))]]
    /\ token' = Null
    /\ tokenExpiry' = Null
    /\ UNCHANGED issued

\* _getToken's catch block, and request rethrowing to its caller
TokenFailed(r, message) ==
    /\ req' = [req EXCEPT ![r] =
                  [IdleReq EXCEPT !.result = AwaitGetToken(GetTokenError(message))]]
    /\ UNCHANGED <<cacheVars, issued>>

\* (a variant that stores the token and leaves the expiry for later)
TokenStoredTokenOnly(r, d) ==
    /\ token' = d.access_token
    /\ UNCHANGED tokenExpiry
    /\ issued' = issued + 1
    /\ req' = Issued(r, req[r].method, req[r].data, d.access_token)

\* _getToken stores the parsed answer d and returns this.token
TokenStored(r, d) ==
    /\ token' = d.access_token
    /\ tokenExpiry' = TokenExpiryOf(d, now)
    /\ issued' = issued + 1
    /\ req' = Issued(r, req[r].method, req[r].data, d.access_token)

\* The token endpoint answers.  `await fetch` and `await response.json()`
\* touch no shared state between them, so the two resumptions are one step.
TokenResponse(r, resp) ==
    /\ req[r].pc = "authWait"
    /\ IF resp.kind = "reject"
       THEN TokenFailed(r, <<"fetch failed">>)
       ELSE IF ~Ok(resp.status)
       THEN TokenFailed(r, <<"Authentication failed: ", StatusLine(resp.status)>>)
       ELSE IF ~resp.parses
       THEN TokenFailed(r, <<"Unexpected token in JSON">>)
       ELSE TokenStored(r, [access_token |-> ServerToken(issued + 1),
                            expires_in |-> resp.expires_in])
    /\ UNCHANGED <<sdk, thrown, config, clientVars, now, ticks>>

\* what request makes of the resource endpoint's answer: the body is decoded
\* first, the status is looked at afterwards
Outcome(resp) ==
    IF resp.kind = "reject"
    THEN RequestError(<<"fetch failed">>)
    ELSE IF resp.json /\ ~resp.parses
    THEN RequestError(<<"Unexpected token in JSON">>)
    ELSE IF ~Ok(resp.status)
    THEN RequestError(<<"Request failed: ", StatusLine(resp.status)>>)
    ELSE IF resp.json THEN Obj("responseData") ELSE Str(<<"text body">>)

\* (a variant that forgets the cached token when the resource endpoint
\* answers 401)
ResourceResponseInvalidating(r, resp) ==
    /\ req[r].pc = "resWait"
    /\ req' = [req EXCEPT ![r] = [IdleReq EXCEPT !.result = Outcome(resp)]]
    /\ IF resp.status = 401
       THEN token' = Null /\ tokenExpiry' = Null
       ELSE UNCHANGED cacheVars
    /\ UNCHANGED <<sdk, thrown, config, clientVars, now, ticks, issued>>

\* The resource endpoint answers.  `await fetch` and the await of the body
\* touch no shared state between them, so the two resumptions are one step.
ResourceResponse(r, resp) ==
    /\ req[r].pc = "resWait"
    /\ req' = [req EXCEPT ![r] = [IdleReq EXCEPT !.result = Outcome(resp)]]
    /\ UNCHANGED <<sdk, thrown, config, clientVars, cacheVars, now, ticks, issued>>

\* ---- the services of index.js : SMS, USSD, payment ----

\* a required field of a service call is missing or empty, or it is given
FieldFaults == {Undefined, Str(<<>>)}
FieldGiven == Str(<<"value">>)

\* the options of a service call: complete, or with one required field
\* missing or empty
OneFault(complete) ==
    {complete}
    \cup UNION {{[complete EXCEPT ![f] = x] : x \in FieldFaults} :
                  f \in DOMAIN complete}

SMSOptions == OneFault([recipient |-> FieldGiven, message |-> FieldGiven])
USSDOptions == OneFault([address |-> FieldGiven, message |-> FieldGiven])
PaymentOptions ==
    OneFault([amount |-> FieldGiven, currency |-> FieldGiven,
              customerMsisdn |-> FieldGiven])

\* an async service method throws before its first await: the promise it
\* returned is rejected with e and nothing else has happened
Throws(r, e) ==
    /\ sdk # Undefined
    /\ req[r].pc = "idle"
    /\ req' = [req EXCEPT ![r] = [IdleReq EXCEPT !.result = e]]
    /\ UNCHANGED <<sdk, thrown, config, clientVars, cacheVars, now, ticks, issued>>

\* api.get(endpoint): request with method GET
get(r) == Request(r, [method |-> Str(<<"GET">>), data |-> Undefined])

\* api.post(endpoint, data): request with method POST and the given body
post(r, dat) == Request(r, [method |-> Str(<<"POST">>), data |-> dat])

\* (a variant that looks at the recipient only)
sendSMSRecipientOnly(r, options) ==
    IF ~Truthy(options.recipient)
    THEN Throws(r, Err(<<"Recipient and message are required">>))
    ELSE post(r, Obj("data"))

\* SMSService.sendSMS; the envelope built from the options is an object
sendSMS(r, options) ==
    IF ~Truthy(options.recipient) \/ ~Truthy(options.message)
    THEN Throws(r, Err(<<"Recipient and message are required">>))
    ELSE post(r, Obj("data"))

\* USSDService.sendNotification
sendNotification(r, options) ==
    IF ~Truthy(options.address) \/ ~Truthy(options.message)
    THEN Throws(r, Err(<<"Address and message are required">>))
    ELSE post(r, Obj("data"))

\* PaymentService.requestPayment
requestPayment(r, options) ==
    IF \/ ~Truthy(options.amount)
       \/ ~Truthy(options.currency)
       \/ ~Truthy(options.customerMsisdn)
    THEN Throws(r, Err(<<"Amount, currency, and customer MSISDN are required">>))
    ELSE post(r, Obj("data"))

Next ==
    \/ \E cfg \in Configs : CreateClient(cfg)
    \/ \E r \in Reqs, options \in Options : Request(r, options)
    \/ \E r \in Reqs, resp \in TokenResponses : TokenResponse(r, resp)
    \/ \E r \in Reqs, resp \in ResourceResponses : ResourceResponse(r, resp)
    \/ Tick

Spec == Init /\ [][Next]_vars

\* The application works through the services and the client's get
SvcNext ==
    \/ \E cfg \in Configs : CreateClient(cfg)
    \/ \E r \in Reqs : get(r)
    \/ \E r \in Reqs, options \in SMSOptions : sendSMS(r, options)
    \/ \E r \in Reqs, options \in USSDOptions : sendNotification(r, options)
    \/ \E r \in Reqs, options \in PaymentOptions : requestPayment(r, options)
    \/ \E r \in Reqs, resp \in TokenResponses : TokenResponse(r, resp)
    \/ \E r \in Reqs, resp \in ResourceResponses : ResourceResponse(r, resp)
    \/ Tick

SvcSpec == Init /\ [][SvcNext]_vars

\* The token endpoint answers every fetch successfully with a positive
\* lifetime.  An awaited fetch settles (the configured timeout bounds it), so
\* the answer to a call in flight is eventually delivered.
NextOk ==
    \/ \E cfg \in Configs : CreateClient(cfg)
    \/ \E r \in Reqs, options \in Options : Request(r, options)
    \/ \E r \in Reqs, resp \in OkTokenResponses : TokenResponse(r, resp)
    \/ \E r \in Reqs, resp \in ResourceResponses : ResourceResponse(r, resp)
    \/ Tick

LiveSpec ==
    /\ Init
    /\ [][NextOk]_vars
    /\ \A r \in Reqs : WF_vars(\E resp \in OkTokenResponses : TokenResponse(r, resp))

\* ---- the claims ----
\* a request() call of r starts in this step
Starts(r) == req[r].pc = "idle" /\ req'[r].pc # "idle"

\* r issues its resource call in this step
Issues(r) == req[r].pc # "resWait" /\ req'[r].pc = "resWait"

\* the Authorization header that carries tok
Bearer(tok) == Str(<<"Bearer ">> \o tok.v)

\* C1: a _getToken call made while a token is cached and the clock is strictly
\* before tokenExpiry makes no token-endpoint call, returns the cached token
\* value and leaves token and tokenExpiry as they are.
C1_CachedTokenReused ==
    [][\A r \in Reqs :
        (Starts(r) /\ Truthy(token) /\ Truthy(tokenExpiry) /\ now < tokenExpiry.v)
        => /\ req'[r].pc = "resWait"
           /\ req'[r].requestOptions.Authorization = Bearer(token)
           /\ UNCHANGED <<token, tokenExpiry, issued>>]_vars

\* one token was ever issued and two calls carry it: one of them fetched it,
\* the other one took it from the cache
C1_Witness ==
    /\ issued = 1
    /\ \A r \in {1, 2} :
          /\ req[r].pc = "resWait"
          /\ req[r].requestOptions.Authorization = Bearer(token)

\* C2: a _getToken call made with no cached token, or with the clock at or
\* after tokenExpiry (equality included), does not return the cached token: it
\* calls the token endpoint.
C2_ExpiredTokenRefetched ==
    [][\A r \in Reqs :
        (Starts(r) /\ (~Truthy(token) \/ ~Truthy(tokenExpiry) \/ now >= tokenExpiry.v))
        => /\ req'[r].pc = "authWait"
           /\ UNCHANGED <<token, tokenExpiry>>]_vars

\* the only token ever issued is cached, the clock stands exactly at its
\* expiry, and a call that found it cached is fetching a new one
C2_Witness ==
    /\ issued = 1
    /\ now > 0
    /\ tokenExpiry.v = now
    /\ \E r \in Reqs : req[r].pc = "authWait" /\ req[r].stale

\* C3: every resource call carries a defined, non-null token whose expiry is
\* strictly later than the time the call is issued.
C3_CallCarriesFreshToken ==
    [][\A r \in Reqs :
        Issues(r)
        => /\ Truthy(token')
           /\ req'[r].requestOptions.Authorization = Bearer(token')
           /\ Truthy(tokenExpiry')
           /\ now' < tokenExpiry'.v]_vars

\* C4: at most one token-endpoint exchange is in flight at any time.
C4_SingleFlight == Cardinality(Fetching) <= 1

\* C5: when the token endpoint answers every fetch successfully with a
\* positive lifetime, every request that awaits a token eventually obtains one
\* and goes on with it, and the token it goes on with is non-null and not
\* expired.
C5_EveryRequestObtainsToken ==
    /\ \A r \in Reqs : (req[r].pc = "authWait") ~> (req[r].pc = "resWait")
    /\ [][\A r \in Reqs :
            Issues(r)
            => /\ Truthy(token')
               /\ req'[r].requestOptions.Authorization = Bearer(token')
               /\ Truthy(tokenExpiry')
               /\ now' < tokenExpiry'.v]_vars

\* the clock has not moved, so no token has expired: every caller fetched a
\* token of its own, concurrently, and went on with it
C5_Witness ==
    /\ ticks = 0
    /\ issued = NumReqs
    /\ \A r \in Reqs : req[r].pc = "resWait"

\* C6: createClient with clientId or clientSecret empty or absent throws the
\* configuration error; no client, token cache or service object exists
\* afterwards and no network call was made.
C6_MissingCredentialsRejected ==
    (/\ config # Undefined
     /\ (~Truthy(config.clientId) \/ ~Truthy(config.clientSecret)))
    => /\ thrown = ConfigError
       /\ sdk = Undefined
       /\ clientId = Undefined /\ clientSecret = Undefined
       /\ token = Undefined /\ tokenExpiry = Undefined
       /\ issued = 0
       /\ \A r \in Reqs : req[r] = IdleReq

\* createClient was given a clientId and an empty clientSecret, and threw
C6_Witness ==
    /\ config # Undefined
    /\ Truthy(config.clientId)
    /\ config.clientSecret = Str(<<>>)
    /\ thrown = ConfigError

\* C7: when the token acquisition fails, the request ends at once (no second
\* token-endpoint call, no resource call) and throws _getToken's
\* authentication error as it is, not wrapped as a request failure.
C7_AuthFailurePropagates ==
    [][\A r \in Reqs, resp \in FailedTokenResponses :
        TokenResponse(r, resp)
        => /\ req'[r].pc = "idle"
           /\ req'[r].result.t = "Error"
           /\ Head(req'[r].result.v) = "Failed to get authentication token: "
           /\ issued' = issued]_vars

\* a call ended with the authentication error of a 401 from the token endpoint
C7_Witness ==
    \E r \in Reqs :
        /\ req[r].pc = "idle"
        /\ req[r].result =
              GetTokenError(<<"Authentication failed: ", "401 Unauthorized">>)

\* C8: a step in which a call ends by throwing (the token acquisition failed,
\* or the resource call failed or timed out) leaves token and tokenExpiry as
\* they are.
C8_FailureLeavesCache ==
    [][\A r \in Reqs :
        (req[r].pc # "idle" /\ req'[r].pc = "idle" /\ req'[r].result.t = "Error")
        => UNCHANGED <<token, tokenExpiry>>]_vars

\* a token is cached, one call ended with a failed token acquisition and
\* another one with a failed resource call
C8_Witness ==
    /\ Truthy(token) /\ Truthy(tokenExpiry)
    /\ \E r, q \in Reqs :
          /\ req[r].result = GetTokenError(<<"fetch failed">>)
          /\ req[q].result = RequestError(<<"fetch failed">>)

\* C9: a resource call answered with a status outside the success range
\* throws the request error that carries the status code and status text,
\* whether or not the body could be decoded.
C9_FailingStatusReported ==
    [][\A r \in Reqs, resp \in ResourceResponses :
        (resp.kind = "response" /\ ~Ok(resp.status) /\ ResourceResponse(r, resp))
        => req'[r].result =
              RequestError(<<"Request failed: ", StatusLine(resp.status)>>)]_vars

\* C10: the cached token's lifetime is 3600 seconds when the answer omits
\* expires_in, and exactly expires_in seconds when it is present.
C10_LifetimeAsAnswered ==
    [][\A r \in Reqs, resp \in TokenResponses \ FailedTokenResponses :
        TokenResponse(r, resp)
        => tokenExpiry' =
              DateOf(now + (IF resp.expires_in = Undefined
                            THEN DefaultExpiresIn
                            ELSE resp.expires_in.v) * MsPerSecond)]_vars

\* C11: the call request issues carries a body if and only if the method is
\* not GET and the caller supplied a non-null body; the method is GET when the
\* caller gives none.
C11_BodyIffNonNull ==
    [][\A r \in Reqs, options \in Options :
        (Request(r, options) /\ Issues(r))
        => LET method == IF options.method = Undefined
                         THEN Str(<<"GET">>) ELSE options.method
           IN /\ req'[r].requestOptions.method = method
              /\ (req'[r].requestOptions.body # Undefined
                  <=> (method # Str(<<"GET">>)
                       /\ options.data \notin {Undefined, Null}))]_vars

\* C13: once the client is constructed no step changes clientId,
\* clientSecret, baseUrl, timeout or debug, and token and tokenExpiry change
\* only in the step in which some caller's _getToken stores the token
\* endpoint's answer; starting a request or a service call, and the step
\* that settles a resource call, leave them as they are.
C13_FieldsFrame ==
    [][sdk # Undefined
       => /\ UNCHANGED clientVars
          /\ (cacheVars' # cacheVars
              => \E r \in Reqs, resp \in TokenResponses \ FailedTokenResponses :
                    TokenResponse(r, resp))
          /\ \A r \in Reqs :
                (req[r].pc \in {"idle", "resWait"} /\ req'[r] # req[r])
                => UNCHANGED cacheVars]_vars

\* a constructed client on which a token is cached, a resource call has
\* returned its data and a service call has been rejected
C13_Witness ==
    /\ sdk # Undefined
    /\ clientId = config.clientId /\ clientSecret = config.clientSecret
    /\ timeout = Num(DefaultTimeout) /\ debug = Bool(FALSE)
    /\ Truthy(token)
    /\ \E r, q \in Reqs :
          /\ req[r].result = Obj("responseData")
          /\ req[q].result = Err(<<"Recipient and message are required">>)

\* C14: a request issues its resource call only in a step in which its token
\* acquisition has completed (the cached token was found valid, or the token
\* endpoint's successful answer was stored) and the call carries that token;
\* a step in which the acquisition fails issues no resource call; and a
\* request whose resource call is out never issues another: its next step
\* settles it.
C14_TokenThenOneCall ==
    [][\A r \in Reqs :
        /\ Issues(r)
           => /\ \/ /\ req[r].pc = "idle"
                    /\ CachedTokenValid(token, tokenExpiry, now)
                 \/ /\ req[r].pc = "authWait"
                    /\ \E resp \in TokenResponses \ FailedTokenResponses :
                          TokenResponse(r, resp)
              /\ req'[r].requestOptions.Authorization = Bearer(token')
        /\ (\E resp \in FailedTokenResponses : TokenResponse(r, resp))
           => \A q \in Reqs : ~Issues(q)
        /\ (req[r].pc = "resWait" /\ req'[r] # req[r])
           => /\ req'[r].pc = "idle"
              /\ req'[r].result # Undefined]_vars

\* one request ended on a rejected token fetch with no call out, while a
\* second request's resource call is out with the token fetched for it
C14_Witness ==
    \E r, q \in Reqs :
        /\ req[r].pc = "idle"
        /\ req[r].result = GetTokenError(<<"fetch failed">>)
        /\ req[q].pc = "resWait"
        /\ issued = 1
        /\ req[q].requestOptions.Authorization = Bearer(ServerToken(1))

\* C15: token and tokenExpiry are never torn.  In every state both are unset
\* or both are set, and every step that changes either of them writes both
\* from one token-endpoint answer: the token of that answer and the expiry
\* computed from that answer's expires_in, whichever fetch completes last.
C15_PairNeverTorn ==
    /\ [](Truthy(token) <=> tokenExpiry \notin {Undefined, Null})
    /\ [][cacheVars' # cacheVars /\ sdk # Undefined
          => \E r \in Reqs, resp \in TokenResponses :
                /\ TokenResponse(r, resp)
                /\ token' = ServerToken(issued + 1)
                /\ tokenExpiry' =
                      TokenExpiryOf([access_token |-> token',
                                     expires_in |-> resp.expires_in], now)]_vars

\* two fetches have completed, the second overwrote the pair of the first:
\* the calls of both are out, and the cache holds the second token with the
\* expiry of the second answer
C15_Witness ==
    \E r, q \in Reqs :
        /\ req[r].pc = "resWait" /\ req[q].pc = "resWait"
        /\ req[r].requestOptions.Authorization = Bearer(ServerToken(1))
        /\ req[q].requestOptions.Authorization = Bearer(ServerToken(2))
        /\ token = ServerToken(2)
        /\ tokenExpiry = DateOf(now + 1 * MsPerSecond)
        /\ ticks = 0

\* C16: sendSMS without recipient or message, sendNotification without address
\* or message and requestPayment without amount, currency or customerMsisdn
\* end in the step of the call with the validation error: no token fetch is
\* started, no resource call is issued, and token and tokenExpiry are
\* unchanged.  (Only a step of an idle caller can be such a call.)
C16_ValidationBeforeNetwork ==
    [][\A r \in Reqs :
        LET Rejected(message) ==
                /\ req'[r].pc = "idle"
                /\ req'[r].result = Err(message)
                /\ \A q \in Reqs : ~Starts(q) /\ ~Issues(q)
                /\ UNCHANGED <<cacheVars, issued>>
        IN  (req[r].pc = "idle" /\ req'[r] # req[r]) =>
            /\ \A o \in SMSOptions :
                  ((~Truthy(o.recipient) \/ ~Truthy(o.message))
                      /\ sendSMS(r, o))
                  => Rejected(<<"Recipient and message are required">>)
            /\ \A o \in USSDOptions :
                  ((~Truthy(o.address) \/ ~Truthy(o.message))
                      /\ sendNotification(r, o))
                  => Rejected(<<"Address and message are required">>)
            /\ \A o \in PaymentOptions :
                  ((\/ ~Truthy(o.amount) \/ ~Truthy(o.currency)
                    \/ ~Truthy(o.customerMsisdn))
                      /\ requestPayment(r, o))
                  => Rejected(<<"Amount, currency, and customer MSISDN are required">>)]_vars

\* on a fresh client a payment request and a USSD notification were rejected
\* for a missing field: nothing was fetched and the cache is still empty
C16_Witness ==
    \E r, q \in Reqs :
        /\ req[r].result =
              Err(<<"Amount, currency, and customer MSISDN are required">>)
        /\ req[q].result = Err(<<"Address and message are required">>)
        /\ req[r].pc = "idle" /\ req[q].pc = "idle"
        /\ issued = 0
        /\ token = Null /\ tokenExpiry = Null
====
